---- MODULE Spec2Model ----
(***************************************************************************)
(* A model of src/clean.py: the wikitext cleaning pipeline (dropNested,    *)
(* unescape, clean_text) and the dump loop (process_dump).                 *)
(*                                                                         *)
(* A text is a sequence of Unicode code points, so that chr(), int() and   *)
(* the character classes of the regular expressions are computed, not      *)
(* assumed.  Offsets into a text are 0-based as in Python: the character   *)
(* at offset p of text t is t[p + 1].                                      *)
(***************************************************************************)
EXTENDS Integers, Sequences, FiniteSets, TLC

VARIABLES dn, ue, ct, pd

vars == <<dn, ue, ct, pd>>

\* A variable that the specification at hand does not use.
Idle == [pc |-> "idle"]

----------------------------------------------------------------------------
(* Characters and strings                                                  *)

\* ord(c) for the characters the model writes literally.  The characters
\* outside ASCII are named: ZH U+4E2D, CAN U+53C2, JIAN U+89C1 (CJK ideographs;
\* CAN JIAN is the end-section keyword of line 115), FSTOP U+3002, FCOMMA
\* U+FF0C, FBANG U+FF01, FQUERY U+FF1F, FSEMI U+FF1B, FCOLON U+FF1A (the
\* full-width punctuation of lines 224-225 and 249).
Ord(c) ==
    CASE c = "\n" -> 10
      [] c = " " -> 32
      [] c = "#" -> 35
      [] c = "&" -> 38
      [] c = "*" -> 42
      [] c = "0" -> 48
      [] c = "1" -> 49
      [] c = "2" -> 50
      [] c = "4" -> 52
      [] c = "6" -> 54
      [] c = "9" -> 57
      [] c = ";" -> 59
      [] c = "<" -> 60
      [] c = "=" -> 61
      [] c = ">" -> 62
      [] c = "A" -> 65
      [] c = "X" -> 88
      [] c = "_" -> 95
      [] c = "a" -> 97
      [] c = "g" -> 103
      [] c = "l" -> 108
      [] c = "m" -> 109
      [] c = "p" -> 112
      [] c = "t" -> 116
      [] c = "x" -> 120
      [] c = "z" -> 122
      [] c = "{" -> 123
      [] c = "|" -> 124
      [] c = "}" -> 125
      [] c = "FSTOP" -> 12290
      [] c = "ZH" -> 20013
      [] c = "CAN" -> 21442
      [] c = "JIAN" -> 35265
      [] c = "FCOMMA" -> 65292
      [] c = "FBANG" -> 65281
      [] c = "FQUERY" -> 65311
      [] c = "FSEMI" -> 65307
      [] c = "FCOLON" -> 65306

\* The text whose characters are named by cs.
Str(cs) == [i \in 1..Len(cs) |-> Ord(cs[i])]

RECURSIVE Concat(_)
\* ''.join(parts)
Concat(parts) ==
    IF parts = <<>> THEN <<>> ELSE Head(parts) \o Concat(Tail(parts))

\* c * n
Rep(c, n) == [i \in 1..n |-> c]

\* text[a:b] for 0 <= a and b <= len(text); empty when b <= a.
Slice(text, a, b) == SubSeq(text, a + 1, b)

\* A failed search: re.search returns None.
None == 0 - 1

Min(S) == CHOOSE p \in S : \A q \in S : p <= q

\* re.compile(delim).search(text, from).start() for a pattern that matches
\* exactly the literal string delim; None when there is no match.
Find(text, delim, from) ==
    LET hits == {p \in from..(Len(text) - Len(delim)) :
                    \A k \in 1..Len(delim) : text[p + k] = delim[k]}
    IN  IF hits = {} THEN None ELSE Min(hits)

----------------------------------------------------------------------------
(* dropNested(text, openDelim, closeDelim), lines 55-105, one step per     *)
(* loop test.  A match object is modelled by the offset where it starts;   *)
(* it ends Len(delim) later.  The record s holds the locals of the call;   *)
(* s.fell is a history field, TRUE once the branch of lines 83-89 ran.     *)

\* m.end() of a match m of delim
MatchEnd(m, delim) == m + Len(delim)

\* The template and the table delimiters of lines 123-124.
Delims ==
    { [open |-> Str(<<"{", "{">>), close |-> Str(<<"}", "}">>)],
      [open |-> Str(<<"{", "|">>), close |-> Str(<<"|", "}">>)] }

\* The locals on entry to dropNested.
DNCall(text, open, close) ==
    [pc |-> "begin", text |-> text, open |-> open, close |-> close,
     matches |-> <<>>, nest |-> 0, start |-> None, end |-> None,
     next |-> None, last |-> None, res |-> <<>>, fell |-> FALSE]

\* Calling .end() on None raises AttributeError.
DNRaise(s) == [s EXCEPT !.pc = "error"]

\* Lines 59-65: the first open marker and the first close marker after it.
DNBegin(s) ==
    LET start == Find(s.text, s.open, 0)
    IN  IF start = None
        THEN [s EXCEPT !.pc = "done", !.res = s.text]
        ELSE [s EXCEPT !.pc = "outer", !.start = start, !.next = start,
                       !.end = Find(s.text, s.close, MatchEnd(start, s.open))]

\* DNOuter with the search started at next.start() instead of next.end().
DNOuterFromStart(s) ==
    IF s.end = None
    THEN [s EXCEPT !.pc = "build"]
    ELSE LET next == Find(s.text, s.open, s.next)
         IN  [s EXCEPT !.next = next,
                       !.pc = IF next = None THEN "drain" ELSE "inner"]

\* Lines 66-68: the test of the outer loop and the search for the next open
\* marker.
DNOuter(s) ==
    IF s.end = None
    THEN [s EXCEPT !.pc = "build"]
    ELSE LET next == Find(s.text, s.open, MatchEnd(s.next, s.open))
         IN  [s EXCEPT !.next = next,
                       !.pc = IF next = None THEN "drain" ELSE "inner"]

\* Lines 69-77: no further open marker; one test of `while nest`, and the
\* append and break that follow the loop.
DNDrain(s) ==
    IF s.end = None THEN DNRaise(s)
    ELSE LET end0 == Find(s.text, s.close, MatchEnd(s.end, s.close))
             rec(e) == Append(s.matches, <<s.start, MatchEnd(e, s.close)>>)
         IN  IF s.nest # 0 /\ end0 # None
             THEN [s EXCEPT !.nest = s.nest - 1, !.end = end0]
             ELSE [s EXCEPT !.nest = IF s.nest # 0 THEN s.nest - 1 ELSE s.nest,
                            !.matches = rec(s.end), !.pc = "build"]

\* FallbackSpan without the test of line 84.
FallbackSpanCurrent(s, last) == <<s.start, last>>

\* The removal span of lines 84-87.
FallbackSpan(s, last) ==
    IF s.matches # <<>> THEN <<s.matches[1][1], last>> ELSE <<s.start, last>>

\* Lines 78-94: one test of the inner loop and the body it runs.
DNInner(s) ==
    IF s.end = None THEN DNRaise(s)
    ELSE IF ~(MatchEnd(s.end, s.close) < s.next) THEN [s EXCEPT !.pc = "after"]
    ELSE IF s.nest # 0
    THEN LET last == MatchEnd(s.end, s.close)
             end  == Find(s.text, s.close, last)
         IN  IF end = None
             THEN [s EXCEPT !.nest = s.nest - 1, !.last = last, !.end = None,
                            !.matches = <<FallbackSpan(s, last)>>,
                            !.fell = TRUE, !.pc = "after"]
             ELSE [s EXCEPT !.nest = s.nest - 1, !.last = last, !.end = end]
    ELSE [s EXCEPT !.matches = Append(s.matches,
                                      <<s.start, MatchEnd(s.end, s.close)>>),
                   !.start = s.next,
                   !.end = Find(s.text, s.close, MatchEnd(s.next, s.open)),
                   !.pc = "after"]

\* DNAfter without the increment of line 96.
DNAfterFlat(s) == [s EXCEPT !.pc = "outer"]

\* Lines 95-96.  Match objects compare by identity; next is the object start
\* exactly when line 92 has just assigned it, and every other start is a match
\* at an earlier offset.
DNAfter(s) ==
    [s EXCEPT !.nest = IF s.next # s.start THEN s.nest + 1 ELSE s.nest,
              !.pc = "outer"]

RECURSIVE Outside(_, _, _)
\* Lines 99-104: the text outside the spans, from offset from on.
Outside(text, spans, from) ==
    IF spans = <<>> THEN Slice(text, from, Len(text))
    ELSE Slice(text, from, Head(spans)[1])
            \o Outside(text, Tail(spans), Head(spans)[2])

\* Lines 98-105.
DNBuild(s) == [s EXCEPT !.res = Outside(s.text, s.matches, 0), !.pc = "done"]

\* One step of the call.
DNStep(s) ==
    CASE s.pc = "begin" -> DNBegin(s)
      [] s.pc = "outer" -> DNOuter(s)
      [] s.pc = "drain" -> DNDrain(s)
      [] s.pc = "inner" -> DNInner(s)
      [] s.pc = "after" -> DNAfter(s)
      [] s.pc = "build" -> DNBuild(s)

RECURSIVE DNRun(_)
DNRun(s) == IF s.pc \in {"done", "error"} THEN s ELSE DNRun(DNStep(s))

\* The value dropNested returns.
dropNested(text, open, close) == DNRun(DNCall(text, open, close)).res

----------------------------------------------------------------------------
(* The specification of one dropNested call on a bounded input             *)

\* The longest input, counted in tokens (a marker or one other character).
MaxToks == 8

\* The sequences over S of length at most n
SeqsUpTo(S, n) == UNION {[1..k -> S] : k \in 0..n}

\* The inputs of the call: every string of open markers, close markers, plain
\* characters and single closing braces (which put markers at odd offsets and
\* make stray halves of markers).
NestedTexts(d) ==
    {Concat(toks) :
        toks \in SeqsUpTo({d.open, d.close, Str(<<"a">>), Str(<<"}">>)}, MaxToks)}

NestedInit ==
    /\ \E d \in Delims : dn \in {DNCall(text, d.open, d.close) : text \in NestedTexts(d)}
    /\ ue = Idle /\ ct = Idle /\ pd = Idle

NestedBegin == dn.pc = "begin" /\ dn' = DNBegin(dn) /\ UNCHANGED <<ue, ct, pd>>
NestedOuter == dn.pc = "outer" /\ dn' = DNOuter(dn) /\ UNCHANGED <<ue, ct, pd>>
NestedDrain == dn.pc = "drain" /\ dn' = DNDrain(dn) /\ UNCHANGED <<ue, ct, pd>>
NestedInner == dn.pc = "inner" /\ dn' = DNInner(dn) /\ UNCHANGED <<ue, ct, pd>>
NestedAfter == dn.pc = "after" /\ dn' = DNAfter(dn) /\ UNCHANGED <<ue, ct, pd>>
NestedBuild == dn.pc = "build" /\ dn' = DNBuild(dn) /\ UNCHANGED <<ue, ct, pd>>

NestedNext ==
    \/ NestedBegin
    \/ NestedOuter
    \/ NestedDrain
    \/ NestedInner
    \/ NestedAfter
    \/ NestedBuild

SpecNested == NestedInit /\ [][NestedNext]_vars

----------------------------------------------------------------------------
(* Properties of dropNested                                                *)

\* The marker delim lies at offset p of text.
IsAt(text, delim, p) ==
    /\ p + Len(delim) <= Len(text)
    /\ \A k \in 1..Len(delim) : text[p + k] = delim[k]

RECURSIVE ScanDepth(_, _, _, _, _)
\* The nesting depth at the end of text, reading the markers left to right
\* from offset p at depth `depth`; None when a close marker has no open one.
ScanDepth(text, open, close, p, depth) ==
    IF p >= Len(text) THEN depth
    ELSE IF IsAt(text, open, p)
         THEN ScanDepth(text, open, close, p + Len(open), depth + 1)
    ELSE IF IsAt(text, close, p)
         THEN IF depth = 0 THEN None
              ELSE ScanDepth(text, open, close, p + Len(close), depth - 1)
    ELSE ScanDepth(text, open, close, p + 1, depth)

\* The offsets of text where a marker lies.
MarkerOffsets(text, open, close) ==
    {p \in 0..Len(text) : IsAt(text, open, p) \/ IsAt(text, close, p)}

\* No two marker occurrences share a character, so that which marker a
\* character belongs to does not depend on how the text is read ({{{ and {|}
\* do not occur).
Unambiguous(text, open, close) ==
    \A p, q \in MarkerOffsets(text, open, close) : p < q => p + Len(open) <= q

\* Every close marker matches an earlier open one and every open one is closed.
Balanced(text, open, close) ==
    /\ Unambiguous(text, open, close)
    /\ ScanDepth(text, open, close, 0, 0) = 0

RECURSIVE OutermostRemoved(_, _, _, _, _)
\* The characters of a balanced text that lie outside every matched pair.
OutermostRemoved(text, open, close, p, depth) ==
    IF p >= Len(text) THEN <<>>
    ELSE IF IsAt(text, open, p)
         THEN OutermostRemoved(text, open, close, p + Len(open), depth + 1)
    ELSE IF IsAt(text, close, p)
         THEN OutermostRemoved(text, open, close, p + Len(close), depth - 1)
    ELSE (IF depth = 0 THEN <<text[p + 1]>> ELSE <<>>)
            \o OutermostRemoved(text, open, close, p + 1, depth)

DNRank(s) ==
    LET L == Len(s.text)
        K == L + 4
        A == CASE s.pc = "begin" -> L + 3
               [] s.pc \in {"build", "done", "error"} -> 0
               [] OTHER -> IF s.next = None THEN 1 ELSE (L - s.next) + 2
        P == CASE s.pc \in {"inner", "drain"} -> 2
               [] s.pc \in {"after", "build"} -> 1
               [] OTHER -> 0
        E == IF s.pc \in {"inner", "drain"} /\ s.end # None THEN L - s.end ELSE 0
    IN  (A * K * K) + (P * K) + E

\* C5: on every input, however malformed the nesting, the call takes finitely
\* many steps and raises nothing: every step decreases DNRank, every outer
\* iteration moves the open pointer forward, and .end() is never called on a
\* failed close search.
C5_Terminates ==
    /\ [](dn.pc # "error")
    /\ [][/\ DNRank(dn') < DNRank(dn)
          /\ (dn.pc = "outer" /\ dn'.pc = "inner") => dn'.next > dn.next]_vars

\* A call on malformed nesting (a stray close marker, then an open marker that
\* is never closed) has returned.
C5_Witness ==
    /\ dn.pc = "done"
    /\ ScanDepth(dn.text, dn.open, dn.close, 0, 0) = None
    /\ \E p \in 0..Len(dn.text) :
          IsAt(dn.text, dn.open, p) /\ Find(dn.text, dn.close, p) = None

\* The inner scan is at depth > 0, the current close marker ends before the
\* next open marker and no close marker follows it (lines 78-83).
FallbackCase(s) ==
    /\ s.pc = "inner" /\ s.end # None /\ s.nest # 0
    /\ MatchEnd(s.end, s.close) < s.next
    /\ Find(s.text, s.close, MatchEnd(s.end, s.close)) = None

\* C6: in that case the scan stops and exactly one region is removed, from the
\* start of the first region recorded so far (the current open marker when
\* none is recorded) to the end of the last close marker found; the text
\* after that close marker is kept unchanged.
C6_FallbackCollapse ==
    /\ [][FallbackCase(dn) =>
            /\ dn'.matches =
                  << <<IF dn.matches # <<>> THEN dn.matches[1][1] ELSE dn.start,
                       MatchEnd(dn.end, dn.close)>> >>
            /\ dn'.end = None /\ dn'.fell]_vars
    /\ []((dn.pc = "done" /\ dn.fell) =>
            /\ Len(dn.matches) = 1
            /\ dn.matches[1][2] = dn.last
            /\ dn.res = Slice(dn.text, 0, dn.matches[1][1])
                          \o Slice(dn.text, dn.last, Len(dn.text)))

\* The fallback ran with a region already recorded: {{}}a{{{{}}a{{ loses
\* everything up to the last close marker and keeps a{{.
C6_Witness ==
    /\ dn.pc = "done" /\ dn.fell
    /\ dn.text = Str(<<"{", "{", "}", "}", "a", "{", "{", "{", "{", "}", "}", "a", "{", "{">>)
    /\ dn.res = Str(<<"a", "{", "{">>)

----------------------------------------------------------------------------
(* unescape(text), lines 38-53                                             *)

\* [a-zA-Z0-9_], the CJK ideographs and the Greek letter of Name2Codepoint:
\* the characters of the model's texts that \w matches.
IsWord(c) ==
    \/ c \in 48..57 \/ c \in 65..90 \/ c \in 97..122 \/ c = Ord("_")
    \/ c \in 19968..40959 \/ c = 947

\* The value of the digit c in the base, None when it is no digit of it.
DigitVal(c, base) ==
    LET v == CASE c \in 48..57 -> c - 48
               [] c \in 97..102 -> c - 87
               [] c \in 65..70 -> c - 55
               [] OTHER -> None
    IN  IF v # None /\ v < base THEN v ELSE None

RECURSIVE IntDigits(_, _, _, _)
\* The digits of s from index i on, after the value acc: a single underscore
\* may stand between two digits.  None is ValueError.
IntDigits(s, i, base, acc) ==
    IF i > Len(s) THEN acc
    ELSE IF s[i] = Ord("_")
         THEN IF i < Len(s) /\ DigitVal(s[i + 1], base) # None
              THEN IntDigits(s, i + 1, base, acc) ELSE None
    ELSE IF DigitVal(s[i], base) = None THEN None
    ELSE IntDigits(s, i + 1, base, (acc * base) + DigitVal(s[i], base))

\* int(s) and int(s, 16) of a string s of \w characters: base 16 takes an
\* optional 0x or 0X prefix, which an underscore may follow.
PyInt(s, base) ==
    LET prefixed == /\ base = 16 /\ Len(s) >= 2 /\ s[1] = Ord("0")
                    /\ s[2] \in {Ord("x"), Ord("X")}
        body == IF prefixed THEN SubSeq(s, 3, Len(s)) ELSE s
    IN  IF body = <<>> THEN None
        ELSE IF body[1] = Ord("_") /\ ~prefixed THEN None
        ELSE IntDigits(body, 1, base, 0)

\* html.entities.name2codepoint (line 16), for the names that the letters of
\* Ord can spell; None is KeyError.
Name2Codepoint(name) ==
    CASE name = Str(<<"a", "m", "p">>) -> 38
      [] name = Str(<<"l", "t">>) -> 60
      [] name = Str(<<"g", "t">>) -> 62
      [] name = Str(<<"g", "a", "m", "m", "a">>) -> 947
      [] OTHER -> None

\* chr(n) as a one-character text; the empty text stands for ValueError (n
\* above 0x10FFFF) and for the exception that produced n.
Chr(n) == IF n = None \/ n > 1114111 THEN <<>> ELSE <<n>>

\* fixup(m), lines 40-52: m.group(0) is text and m.group(1) is code.
Fixup(text, code) ==
    LET got == IF text[2] = Ord("#")
               THEN IF text[3] = Ord("x")
                    THEN Chr(PyInt(Tail(code), 16))
                    ELSE Chr(PyInt(code, 10))
               ELSE Chr(Name2Codepoint(code))
    IN  IF got = <<>> THEN text ELSE got

\* The number of \w characters of text from offset p on.
WordRun(text, p) ==
    LET stops == {q \in p..Len(text) : q = Len(text) \/ ~IsWord(text[q + 1])}
    IN  Min(stops) - p

\* The length of the match of &#?(\w+); at offset p, 0 when there is none.
RefMatch(text, p) ==
    IF ~IsAt(text, <<Ord("&")>>, p) THEN 0
    ELSE LET h == IF IsAt(text, <<Ord("#")>>, p + 1) THEN 1 ELSE 0
             w == WordRun(text, p + 1 + h)
         IN  IF w > 0 /\ IsAt(text, <<Ord(";")>>, p + 1 + h + w)
             THEN 1 + h + w + 1 ELSE 0

RECURSIVE SubRefs(_, _)
\* Line 53: re.sub from offset from on, the matches taken left to right.
SubRefs(text, from) ==
    LET p == Find(text, <<Ord("&")>>, from)
    IN  IF p = None THEN Slice(text, from, Len(text))
        ELSE LET n == RefMatch(text, p)
                 h == IF IsAt(text, <<Ord("#")>>, p + 1) THEN 1 ELSE 0
             IN  IF n = 0
                 THEN Slice(text, from, p + 1) \o SubRefs(text, p + 1)
                 ELSE Slice(text, from, p)
                        \o Fixup(Slice(text, p, p + n),
                                 Slice(text, p + 1 + h, p + n - 1))
                        \o SubRefs(text, p + n)

\* The value unescape returns.
unescape(text) == SubRefs(text, 0)

----------------------------------------------------------------------------
(* The specification of unescape on a bounded input, run twice as lines    *)
(* 184-185 run it                                                          *)

\* The longest input, counted in pieces (a reference or a piece of plain text).
MaxRefs == 2

\* The pieces of an input: character references of every kind, and plain
\* text.  No piece but a reference holds an ampersand and every reference
\* ends at its own semicolon, so the references of an input are its pieces.
RefPieces ==
    { Str(<<"&", "#", "6", "0", ";">>),
      Str(<<"&", "#", "x", "4", "1", ";">>),
      Str(<<"&", "#", "X", "4", "1", ";">>),
      Str(<<"&", "l", "t", ";">>),
      Str(<<"&", "a", "m", "p", ";">>),
      Str(<<"&", "z", "z", ";">>),
      Str(<<"&", "#", "9", "9", "9", "9", "9", "9", "9", ";">>),
      Str(<<"&", "#", "x", ";">>),
      Str(<<"&", "#", "1", "_", "0", ";">>),
      Str(<<"&", ";">>),
      Str(<<"l", "t", ";">>),
      Str(<<"a">>) }

UnescapeInit ==
    /\ \E pieces \in SeqsUpTo(RefPieces, MaxRefs) :
          ue = [pc |-> "call", pieces |-> pieces, text |-> Concat(pieces),
                res |-> <<>>]
    /\ dn = Idle /\ ct = Idle /\ pd = Idle

\* Line 184: the first pass.
UnescapeOnce ==
    /\ ue.pc = "call"
    /\ ue' = [ue EXCEPT !.pc = "once", !.res = unescape(ue.text)]
    /\ UNCHANGED <<dn, ct, pd>>

\* Line 185: the second pass, on the result of the first.
UnescapeTwice ==
    /\ ue.pc = "once"
    /\ ue' = [ue EXCEPT !.pc = "twice", !.res = unescape(ue.res)]
    /\ UNCHANGED <<dn, ct, pd>>

UnescapeNext == UnescapeOnce \/ UnescapeTwice

SpecUnescape == UnescapeInit /\ [][UnescapeNext]_vars

\* The character a reference denotes, as a text; the piece itself when it is
\* plain text or a reference that cannot be decoded.
Denotes(piece) ==
    CASE piece = Str(<<"&", "#", "6", "0", ";">>) -> Str(<<"<">>)
      [] piece = Str(<<"&", "#", "x", "4", "1", ";">>) -> Str(<<"A">>)
      [] piece = Str(<<"&", "#", "X", "4", "1", ";">>) -> Str(<<"A">>)
      [] piece = Str(<<"&", "l", "t", ";">>) -> Str(<<"<">>)
      [] piece = Str(<<"&", "a", "m", "p", ";">>) -> Str(<<"&">>)
      [] OTHER -> piece

\* C7: unescape replaces every character reference by the character it
\* denotes (decimal, hex with x or X, named) and leaves what cannot be decoded
\* verbatim, dropping no text.
C7_EveryReferenceDecoded ==
    ue.pc = "once" =>
        ue.res = Concat([i \in 1..Len(ue.pieces) |-> Denotes(ue.pieces[i])])

----------------------------------------------------------------------------
(* clean_text(text), lines 107-267                                         *)

\* [\u4e00-\u9fff]
IsCJK(c) == c \in 19968..40959

\* The characters \s matches and str.strip() strips.
IsSpace(c) ==
    \/ c \in 9..13 \/ c \in 28..32 \/ c \in {133, 160, 5760} \/ c \in 8192..8202
    \/ c \in {8232, 8233, 8239, 8287, 12288}

\* The number of characters of t in the set S
CountIn(t, S) == Cardinality({i \in 1..Len(t) : t[i] \in S})

\* len(re.findall(r'[\u4e00-\u9fff]', t))
CountCJK(t) == Cardinality({i \in 1..Len(t) : IsCJK(t[i])})

\* The characters of t at the indexes in keep, in order
Pick(t, keep) ==
    LET at  == [i \in 1..Len(t) |-> <<i, t[i]>>]
        sel == SelectSeq(at, LAMBDA x : x[1] \in keep)
    IN  [k \in 1..Len(sel) |-> sel[k][2]]

\* A text that no input produces: the result of a substitution the model does
\* not compute.
Unmodelled == <<None>>

\* re.sub(pattern, repl, t) for a pattern every match of which holds one of
\* the characters `needs`: a text with none of them is returned unchanged,
\* and the model computes nothing else.
NoMatchSub(t, needs) ==
    IF \E i \in 1..Len(t) : t[i] \in needs THEN Unmodelled ELSE t

\* Lines 115-118: the text before the first end-section keyword.  Of the ten
\* keywords the model computes the first (U+53C2 U+89C1); every other one holds
\* one of U+6CE8 U+8003 U+5916 U+5EF6 U+76F8 U+53E6 U+811A.
Truncate(t) ==
    LET u == NoMatchSub(t, {27880, 32771, 22806, 24310, 30456, 21478, 33050})
        p == Find(u, Str(<<"CAN", "JIAN">>), 0)
    IN  IF p = None THEN u ELSE Slice(u, 0, p)

\* Line 121: an HTML comment holds "!".
Comments(t) == NoMatchSub(t, {33})

\* Lines 123-124: templates, then tables.
Nested(t) ==
    dropNested(dropNested(t, Str(<<"{", "{">>), Str(<<"}", "}">>)),
               Str(<<"{", "|">>), Str(<<"|", "}">>))

\* Lines 130-154: a wiki link and a bracketed external link hold "[" (145-153),
\* a bare URL holds "h" (154).
Links(t) == NoMatchSub(NoMatchSub(t, {91}), {104})

RECURSIVE StripTags(_, _)
\* Line 174: re.sub(r'<[^>]*>', '', t) from offset from on.
StripTags(t, from) ==
    LET p == Find(t, <<Ord("<")>>, from)
        q == IF p = None THEN None ELSE Find(t, <<Ord(">")>>, p + 1)
    IN  IF q = None THEN Slice(t, from, Len(t))
        ELSE Slice(t, from, p) \o StripTags(t, q + 1)

\* Lines 159-174.  A discarded element and a self-closing tag hold "/"
\* (lines 160 and 165), and so does the closing form of an ignored tag (line
\* 171); the opening form of an ignored tag (line 170) holds the first letter
\* of its name in either case (b c d e f h i k n p s t u v, and the characters
\* that IGNORECASE folds to i, k and s).
Tags(t) ==
    LET first == {98, 99, 100, 101, 102, 104, 105, 107, 110, 112, 115, 116, 117, 118}
        upper == {c - 32 : c \in first}
        folds == {304, 305, 383, 8490}
    IN  StripTags(NoMatchSub(NoMatchSub(t, {47}), first \cup upper \cup folds), 0)

\* Lines 179-181: bold and italic markers hold "'".
Emphasis(t) == NoMatchSub(t, {39})

\* [\w\-\+\*/^]
IsTokenChar(c) == IsWord(c) \/ c \in {45, 43, 42, 47, 94}

\* \b at offset q of t: exactly one of the characters around it is a \w.
Boundary(t, q) ==
    (q >= 1 /\ IsWord(t[q])) # (q < Len(t) /\ IsWord(t[q + 1]))

\* The character classes of which the patterns match runs: \s and
\* [\w\-\+\*/^]
InClass(class, c) == IF class = "space" THEN IsSpace(c) ELSE IsTokenChar(c)

\* The number of characters from offset p on that are in the class
RunFrom(t, p, class) ==
    Min({q \in p..Len(t) : q = Len(t) \/ ~InClass(class, t[q + 1])}) - p

\* The number of characters before offset p that are in the class
RunBefore(t, p, class) ==
    p - Min({q \in 0..p : \A k \in (q + 1)..p : InClass(class, t[k])})

\* The match of line 205, \b[\w\-\+\*/^]{1,20}\s*=\s*[\w\-\+\*/^]{1,20}\b,
\* around the "=" at offset e, starting at from or later: <<start, end>>, or
\* <<>> when there is none.  The first token is a whole run of token
\* characters (what follows it is a space or the "="), taken from the leftmost
\* word boundary that leaves it at most 20 long; the second token is the
\* longest one of at most 20 that ends at a word boundary.
AssignMatch(t, e, from) ==
    LET s  == e - RunBefore(t, e, "space")
        r1 == RunBefore(t, s, "token")
        lo == IF s - r1 > from THEN s - r1 ELSE from
        ps == {p \in lo..(s - 1) : s - p <= 20 /\ Boundary(t, p)}
        q2 == e + 1 + RunFrom(t, e + 1, "space")
        r2 == RunFrom(t, q2, "token")
        js == {j \in 1..(IF r2 < 20 THEN r2 ELSE 20) : Boundary(t, q2 + j)}
    IN  IF ps = {} \/ js = {} THEN <<>>
        ELSE <<Min(ps), q2 + (CHOOSE j \in js : \A k \in js : k <= j)>>

RECURSIVE SubAssign(_, _, _)
\* Line 205 from offset from on, looking at the "=" at offset look or later.
SubAssign(t, from, look) ==
    LET e == Find(t, <<Ord("=")>>, look)
    IN  IF e = None THEN Slice(t, from, Len(t))
        ELSE LET m == AssignMatch(t, e, from)
             IN  IF m = <<>> THEN SubAssign(t, from, e + 1)
                 ELSE Slice(t, from, m[1]) \o SubAssign(t, m[2], m[2])

\* Lines 190-205.  Variant markers hold "-" (190-191); a citation marker holds
\* "[" (194); ISBN and DOI hold "I" and "D" (195-196); "reprint" holds "r"
\* (197); every image word holds one of b c f l p r t u in either case or one
\* of U+7F29 U+53F3 U+5DE6 U+5C45 U+6846 (200-201); a parenthesised
\* assignment holds "(" (204).
Normalize(t) ==
    LET image == {66, 67, 70, 76, 80, 82, 84, 85, 98, 99, 102, 108, 112, 114,
                  116, 117, 21491, 23621, 24038, 26694, 32553}
        u == NoMatchSub(NoMatchSub(t, {45, 91, 73, 68, 114}), image \cup {40})
    IN  SubAssign(u, 0, 0)

\* The thresholds of the line filter and of the final check.
CaptionMaxLen == 200
CaptionCommas == 2
MinLineLen == 15
MinDocLen == 100
MinDocCJK == 50

RECURSIVE Split(_, _)
\* t[from:].split('\n')
Split(t, from) ==
    LET p == Find(t, <<Ord("\n")>>, from)
    IN  IF p = None THEN <<Slice(t, from, Len(t))>>
        ELSE <<Slice(t, from, p)>> \o Split(t, p + 1)

\* t.strip()
Strip(t) ==
    LET a == RunFrom(t, 0, "space")
    IN  IF a = Len(t) THEN <<>>
        ELSE Slice(t, a, Len(t) - RunBefore(t, Len(t), "space"))

RECURSIVE Join(_, _)
\* sep.join(parts)
Join(parts, sep) ==
    IF parts = <<>> THEN <<>>
    ELSE IF Len(parts) = 1 THEN parts[1]
    ELSE parts[1] \o sep \o Join(Tail(parts), sep)

\* Line 219: re.match(r'=+.*?=+', line), a line that starts with "=" and
\* holds a second one.
IsHeading(line) ==
    /\ line # <<>> /\ line[1] = Ord("=")
    /\ \E i \in 2..Len(line) : line[i] = Ord("=")

\* Lines 223-225
IsCaption(line) ==
    /\ Len(line) < CaptionMaxLen
    /\ CountIn(line, {Ord("FCOMMA")}) > CaptionCommas
    /\ CountIn(line, {Ord("FSTOP"), Ord("FBANG"), Ord("FQUERY")}) = 0

\* Lines 233-234: chinese_chars < len(line) * 0.3
IsForeign(line) == 10 * CountCJK(line) < 3 * Len(line)

\* Line 238: re.match(r'^\s*[*#:;U+2022 U+00B7]', line)
IsListItem(line) ==
    LET a == RunFrom(line, 0, "space")
    IN  a < Len(line) /\ line[a + 1] \in {42, 35, 58, 59, 8226, 183}

\* KeepLine without the test of lines 238-239.
KeepLineWithLists(line) ==
    /\ line # <<>>
    /\ ~IsHeading(line)
    /\ ~IsCaption(line)
    /\ ~(Len(line) < MinLineLen)
    /\ ~IsForeign(line)

\* Lines 214-241: whether the loop appends the stripped line.
KeepLine(line) ==
    /\ line # <<>>
    /\ ~IsHeading(line)
    /\ ~IsCaption(line)
    /\ ~(Len(line) < MinLineLen)
    /\ ~IsForeign(line)
    /\ ~IsListItem(line)

\* Lines 210-214: the stripped lines that reach the filter.
StrippedLines(t) == LET ls == Split(t, 0) IN [i \in 1..Len(ls) |-> Strip(ls[i])]

\* Lines 210-244
FilterLines(t) == Join(SelectSeq(StrippedLines(t), KeepLine), <<Ord(" ")>>)

\* The full-width punctuation of line 249
Punct == {65292, 12290, 65281, 65311, 65307, 65306}

\* Line 249: \s*([...])\s* -> \1 removes every run of spaces next to one of
\* the six marks.
TightenPunct(t) ==
    LET drop == {i \in 1..Len(t) :
                    /\ IsSpace(t[i])
                    /\ LET b == i - 1 - RunBefore(t, i - 1, "space")
                           a == i + RunFrom(t, i, "space")
                       IN  \/ b >= 1 /\ t[b] \in Punct
                           \/ a < Len(t) /\ t[a + 1] \in Punct}
    IN  Pick(t, (1..Len(t)) \ drop)

RECURSIVE SpaceAfterStop(_, _)
\* Line 250: ([...])\s*([^\s]) -> \1 \2 from offset from on; the character
\* matched as \2 is consumed.
SpaceAfterStop(t, from) ==
    LET stops == {Ord("FSTOP"), Ord("FBANG"), Ord("FQUERY")}
        ps == {p \in from..(Len(t) - 1) :
                  /\ t[p + 1] \in stops
                  /\ p + 1 + RunFrom(t, p + 1, "space") < Len(t)}
    IN  IF ps = {} THEN Slice(t, from, Len(t))
        ELSE LET p == Min(ps)
                 q == p + 1 + RunFrom(t, p + 1, "space")
             IN  Slice(t, from, p + 1) \o <<Ord(" "), t[q + 1]>>
                    \o SpaceAfterStop(t, q + 1)

\* Line 251: \s+ -> ' '
CollapseSpace(t) ==
    LET keep == {i \in 1..Len(t) :
                    ~IsSpace(t[i]) \/ i = 1 \/ ~IsSpace(t[i - 1])}
        u == Pick(t, keep)
    IN  [k \in 1..Len(u) |-> IF IsSpace(u[k]) THEN Ord(" ") ELSE u[k]]

\* Line 254: [|{}()U+FF08 U+FF09\[\]<>] -> ''
Residue(t) ==
    SelectSeq(t, LAMBDA c : c \notin {124, 123, 125, 40, 41, 65288, 65289, 91, 93, 60, 62})

\* Line 255: [U+FF0C U+3002]{2,} -> U+3002
CollapseStops(t) ==
    LET cs == {Ord("FCOMMA"), Ord("FSTOP")}
        in(i) == i >= 1 /\ i <= Len(t) /\ t[i] \in cs
        keep == {i \in 1..Len(t) : ~in(i) \/ ~in(i - 1)}
        out == [i \in 1..Len(t) |->
                  IF in(i) /\ in(i + 1) THEN Ord("FSTOP") ELSE t[i]]
    IN  Pick(out, keep)

\* Line 256: ^\s*[...]\s* -> ''
LeadingPunct(t) ==
    LET a == RunFrom(t, 0, "space")
    IN  IF a < Len(t) /\ t[a + 1] \in Punct
        THEN Slice(t, a + 1 + RunFrom(t, a + 1, "space"), Len(t))
        ELSE t

\* Lines 249-259
Polish(t) ==
    Strip(LeadingPunct(CollapseStops(Residue(
        CollapseSpace(SpaceAfterStop(TightenPunct(t), 0))))))

\* Gate without the test of line 263.
GateWithoutRatio(t) ==
    IF Len(t) < MinDocLen \/ CountCJK(t) < MinDocCJK THEN <<>> ELSE t

\* Lines 262-267: the text, or the empty text when it is too short or holds
\* too little Chinese.
Gate(t) ==
    IF \/ Len(t) < MinDocLen
       \/ 2 * CountCJK(t) < Len(t)
       \/ CountCJK(t) < MinDocCJK
    THEN <<>> ELSE t

\* CleanStages with the first unescape pass moved before the link resolver.
StagesUnescapeFirst ==
    <<"truncate", "nested", "unescape", "links", "tags", "emphasis",
      "unescape", "normalize", "lines", "gate">>

\* The stages of clean_text in the order in which lines 114-267 run them.
CleanStages ==
    <<"truncate", "nested", "links", "tags", "emphasis", "unescape",
      "unescape", "normalize", "lines", "gate">>

\* What a stage makes of the text t.
Stage(name, t) ==
    CASE name = "truncate"  -> Comments(Truncate(t))
      [] name = "nested"    -> Nested(t)
      [] name = "links"     -> Links(t)
      [] name = "tags"      -> Tags(t)
      [] name = "emphasis"  -> Emphasis(t)
      [] name = "unescape"  -> unescape(t)
      [] name = "normalize" -> Normalize(t)
      [] name = "lines"     -> FilterLines(t)
      [] name = "gate"      -> Gate(Polish(t))

RECURSIVE RunStages(_, _)
RunStages(t, k) ==
    IF k > Len(CleanStages) THEN t
    ELSE RunStages(Stage(CleanStages[k], t), k + 1)

\* The value clean_text returns.
clean_text(t) == RunStages(t, 1)

----------------------------------------------------------------------------
(* The specification of clean_text on a bounded document, and of a second  *)
(* call on the text an accepting call returned                             *)

\* The most lines of a document.
MaxLines == 2

Zh(n) == Rep(Ord("ZH"), n)

\* The lines of the documents: prose at the thresholds of the filter and of
\* the final check, the lines the filter drops, and prose with markup.
LineKinds ==
    LET stop == <<Ord("FSTOP")>>
        clause == Zh(25) \o <<Ord("FCOMMA")>>
        a == <<Ord("a")>>
    IN  { Zh(49) \o stop,
          Zh(48) \o stop,
          clause \o clause,
          Rep(Ord("a"), 35) \o Zh(15),
          Rep(Ord("a"), 36) \o Zh(15),
          Rep(Ord("a"), 30) \o Zh(30),
          Zh(14),
          Zh(15),
          Str(<<" ", "*">>) \o Zh(49),
          Str(<<"=", "=">>) \o Zh(20) \o Str(<<"=", "=">>),
          Zh(5) \o <<Ord("FCOMMA")>> \o Zh(5) \o <<Ord("FCOMMA")>> \o Zh(5)
              \o <<Ord("FCOMMA")>> \o Zh(5),
          Str(<<"{", "{", "a", "}", "}">>) \o Zh(49) \o stop,
          Str(<<"&", "#", "6", "0", ";", "a", "&", "#", "6", "2", ";">>) \o Zh(48) \o stop,
          Str(<<"<", "a", ">">>) \o Zh(49) \o stop,
          Zh(49) \o stop \o Str(<<"CAN", "JIAN">>) \o Zh(49) \o stop,
          Str(<<"a", "=", "a", " ">>) \o Zh(49) \o stop }

\* The state at the entry of a call on the text t; first is the result of the
\* call before it.  prev (the text before the last stage run), lineIn (the
\* text that reached the line filter) and log (the stages run) are history.
CleanCall(t, pass, first) ==
    [pc |-> "run", k |-> 1, src |-> t, text |-> t, prev |-> t, lineIn |-> <<>>,
     log |-> <<>>, pass |-> pass, first |-> first]

CleanInit ==
    /\ \E lines \in SeqsUpTo(LineKinds, MaxLines) :
          ct = CleanCall(Join(lines, <<Ord("\n")>>), 1, <<>>)
    /\ dn = Idle /\ ue = Idle /\ pd = Idle

\* The call s after its next stage, `name`, has run.
Advance(s, name) ==
    [s EXCEPT !.text = Stage(name, s.text),
              !.prev = s.text,
              !.lineIn = IF name = "lines" THEN s.text ELSE s.lineIn,
              !.log = Append(s.log, name),
              !.k = s.k + 1,
              !.pc = IF s.k = Len(CleanStages) THEN "done" ELSE "run"]

\* The next stage of the call is `name`.
AtStage(name) == ct.pc = "run" /\ CleanStages[ct.k] = name

CleanTruncate ==
    AtStage("truncate") /\ ct' = Advance(ct, "truncate") /\ UNCHANGED <<dn, ue, pd>>
CleanNested ==
    AtStage("nested") /\ ct' = Advance(ct, "nested") /\ UNCHANGED <<dn, ue, pd>>
CleanLinks ==
    AtStage("links") /\ ct' = Advance(ct, "links") /\ UNCHANGED <<dn, ue, pd>>
CleanTags ==
    AtStage("tags") /\ ct' = Advance(ct, "tags") /\ UNCHANGED <<dn, ue, pd>>
CleanEmphasis ==
    AtStage("emphasis") /\ ct' = Advance(ct, "emphasis") /\ UNCHANGED <<dn, ue, pd>>
CleanUnescape ==
    AtStage("unescape") /\ ct' = Advance(ct, "unescape") /\ UNCHANGED <<dn, ue, pd>>
CleanNormalize ==
    AtStage("normalize") /\ ct' = Advance(ct, "normalize") /\ UNCHANGED <<dn, ue, pd>>
CleanLines ==
    AtStage("lines") /\ ct' = Advance(ct, "lines") /\ UNCHANGED <<dn, ue, pd>>
CleanGate ==
    AtStage("gate") /\ ct' = Advance(ct, "gate") /\ UNCHANGED <<dn, ue, pd>>

\* clean_text is called on the text it has just accepted.
CleanAgain ==
    /\ ct.pc = "done" /\ ct.pass = 1 /\ ct.text # <<>>
    /\ ct' = CleanCall(ct.text, 2, ct.text)
    /\ UNCHANGED <<dn, ue, pd>>

CleanNext ==
    \/ CleanTruncate
    \/ CleanNested
    \/ CleanLinks
    \/ CleanTags
    \/ CleanEmphasis
    \/ CleanUnescape
    \/ CleanNormalize
    \/ CleanLines
    \/ CleanGate
    \/ CleanAgain

SpecClean == CleanInit /\ [][CleanNext]_vars

\* The characters of the documents and of what the stages make of them.
CleanChars ==
    {Ord(c) : c \in {"ZH", "CAN", "JIAN", "FCOMMA", "FSTOP", "\n", " ", "a",
                     "*", "=", "{", "}", "<", ">", "&", "#", ";", "0", "2", "6"}}

\* Every substitution that a call reaches is one the model computes.
CleanModelled == \A i \in 1..Len(ct.text) : ct.text[i] \in CleanChars

----------------------------------------------------------------------------
(* Properties of clean_text                                                *)

\* C1: clean_text returns the empty text or a text of at least 100
\* characters of which at least half, and at least 50, are CJK characters; a
\* final text that misses a threshold is replaced by the empty text.
C1_AcceptedMeetsThresholds ==
    ct.pc = "done" =>
        LET final == Polish(ct.prev)
            ok(t) == Len(t) >= 100 /\ 2 * CountCJK(t) >= Len(t) /\ CountCJK(t) >= 50
        IN  /\ ct.text = <<>> \/ ok(ct.text)
            /\ ct.text = IF ok(final) THEN final ELSE <<>>

\* A final text of 121 characters, 60 of them CJK, has been rejected for its
\* ratio alone.
C1_Witness ==
    /\ ct.pc = "done" /\ ct.text = <<>>
    /\ Len(Polish(ct.prev)) = 121 /\ CountCJK(Polish(ct.prev)) = 60

\* C3: clean_text returns its own accepted output unchanged.
C3_Idempotent == (ct.pc = "done" /\ ct.pass = 2) => ct.text = ct.first

\* The order of the stages as lines 114-267 run them.
CodeOrder ==
    <<"truncate", "nested", "links", "tags", "emphasis", "unescape",
      "unescape", "normalize", "lines", "gate">>

\* C4, as amended: the stages run in the order nested-delimiter stripper,
\* link resolver, tag stripper, emphasis stripping, entity unescaper twice in
\* a row, the rest of the normalizer, line filter, document gate (after the
\* end-section truncation); both unescape passes come after tag stripping.
C4_CodeOrder ==
    /\ Len(ct.log) <= Len(CodeOrder)
    /\ ct.log = SubSeq(CodeOrder, 1, Len(ct.log))
    /\ ct.pc = "done" => ct.log = CodeOrder

\* A tag written with character references passes the tag stripper, is decoded
\* after it and leaves its name in the accepted text.
C4_Witness ==
    /\ ct.pc = "done" /\ ct.pass = 1 /\ ct.log = CodeOrder
    /\ Len(ct.src) >= 11
    /\ SubSeq(ct.src, 1, 11)
         = Str(<<"&", "#", "6", "0", ";", "a", "&", "#", "6", "2", ";">>)
    /\ ct.text # <<>> /\ ct.text[1] = Ord("a")

\* C4 as stated: the first unescape pass runs before link resolution, and
\* link resolution before tag stripping.
C4_UnescapeBeforeLinks ==
    \A i \in 1..Len(ct.log) :
        /\ ct.log[i] = "links" => \E j \in 1..(i - 1) : ct.log[j] = "unescape"
        /\ ct.log[i] = "tags" => \E j \in 1..(i - 1) : ct.log[j] = "links"

\* The line survives the filter, in the words of C8.
StatedKeeps(line) ==
    /\ line # <<>>
    /\ ~IsHeading(line)
    /\ ~(/\ Len(line) < 200
         /\ CountIn(line, {Ord("FCOMMA")}) > 2
         /\ CountIn(line, {Ord("FSTOP"), Ord("FBANG"), Ord("FQUERY")}) = 0)
    /\ Len(line) >= 15
    /\ 10 * CountCJK(line) >= 3 * Len(line)
    /\ line[1] \notin {42, 35, 58, 59, 8226, 183}

\* A caption-like line or a list item
CaptionOrListItem(line) ==
    \/ /\ Len(line) < 200
       /\ CountIn(line, {Ord("FCOMMA")}) > 2
       /\ CountIn(line, {Ord("FSTOP"), Ord("FBANG"), Ord("FQUERY")}) = 0
    \/ line # <<>> /\ line[1] \in {42, 35, 58, 59, 8226, 183}

\* C8: the line filter keeps exactly the trimmed lines that are non-empty, no
\* heading, not caption-like, at least 15 long, at least 30% CJK and no list
\* item, so that no line shorter than 15 is kept; and a document all of whose
\* lines are captions or list items is rejected.
C8_LineFilter ==
    /\ (ct.log # <<>> /\ ct.log[Len(ct.log)] = "lines") =>
          ct.text = Join(SelectSeq(StrippedLines(ct.prev), StatedKeeps),
                         <<Ord(" ")>>)
    /\ (/\ ct.pc = "done"
        /\ \A i \in 1..Len(StrippedLines(ct.lineIn)) :
              CaptionOrListItem(StrippedLines(ct.lineIn)[i]))
          => ct.text = <<>>

\* A document of a caption of 23 characters and a list item of 50 has been
\* rejected.
C8_Witness ==
    /\ ct.pc = "done" /\ ct.text = <<>>
    /\ Len(StrippedLines(ct.lineIn)) = 2
    /\ Len(StrippedLines(ct.lineIn)[1]) = 23
    /\ CountIn(StrippedLines(ct.lineIn)[1], {Ord("FCOMMA")}) = 3
    /\ StrippedLines(ct.lineIn)[2] = <<Ord("*")>> \o Zh(49)

----------------------------------------------------------------------------
(* process_dump, lines 269-368: the loop over the pages of the dump and    *)
(* over the revisions of a page.  The dump is read as the loop goes: each  *)
(* page is an input of the step that takes it.                             *)

\* The most pages of a dump, revisions of a page, and the largest sample
\* size and article limit.
MaxPages == 3
MaxRevs == 2
MaxSample == 2
MaxArticles == 2

\* revision.text or "" (line 312) of the revisions of the dump: no text, a
\* text that clean_text rejects, and one that it accepts.
RevTexts ==
    { <<>>,
      Zh(14),
      Str(<<"{", "{", "a", "}", "}">>) \o Zh(60) \o <<Ord("FSTOP"), Ord("\n")>>
          \o Zh(60) \o <<Ord("FSTOP")>> }

\* The pages a dump can hold.
Pages ==
    [namespace : {0, 1}, redirect : BOOLEAN, revs : SeqsUpTo(RevTexts, MaxRevs)]

\* The locals on entry to the loop of line 303, for a sample size and an
\* article limit (0 is None).  cleaned counts the calls of clean_text on the
\* page at hand and is history.
DumpCall(sample_size, max_articles) ==
    [pc |-> "pages", sample_size |-> sample_size, max_articles |-> max_articles,
     sample_count |-> 0, processed_pages |-> 0, valid_articles |-> 0,
     out |-> <<>>, sample |-> <<>>, id |-> 0, revs |-> <<>>, cleaned |-> 0]

\* Lines 351 and 358: max_articles and valid_articles >= max_articles
LimitReached(s) == s.max_articles # 0 /\ s.valid_articles >= s.max_articles

\* Lines 303-308: the next page is in another namespace or is a redirect.
SkipPage(s, page) == [s EXCEPT !.processed_pages = s.processed_pages + 1]

\* Lines 303-311: the next page is an article; the loop over its revisions
\* starts.
OpenPage(s, page) ==
    [s EXCEPT !.processed_pages = s.processed_pages + 1,
              !.id = s.processed_pages + 1,
              !.revs = page.revs, !.cleaned = 0, !.pc = "revs"]

\* Lines 320-339: the record of an accepted text; chinese_ratio is
\* round(chinese / length, 3).
Record(s, cleaned) ==
    [text |-> cleaned, id |-> s.id, length |-> Len(cleaned),
     chinese |-> CountCJK(cleaned)]

\* Line 358 after the loop over the revisions has ended or was left.
AfterPage(s) == IF LimitReached(s) THEN "done" ELSE "pages"

\* Lines 312-317: the revision is cleaned, the result is empty or short, and
\* the loop goes on to the next revision.
RejectRevision(s) ==
    [s EXCEPT !.revs = Tail(s.revs), !.cleaned = s.cleaned + 1]

\* AcceptRevision with <= for the < of line 346.
AcceptRevisionOneMore(s, cleaned) ==
    LET rec  == [text |-> cleaned, id |-> s.id, length |-> Len(cleaned),
                 chinese |-> CountCJK(cleaned)]
        more == s.sample_count <= s.sample_size
    IN  [s EXCEPT !.out = Append(s.out, rec),
                  !.valid_articles = s.valid_articles + 1,
                  !.sample = IF more THEN Append(s.sample, rec) ELSE s.sample,
                  !.sample_count = IF more THEN s.sample_count + 1
                                   ELSE s.sample_count,
                  !.cleaned = s.cleaned + 1,
                  !.revs = Tail(s.revs),
                  !.pc = IF s.max_articles # 0
                            /\ s.valid_articles + 1 >= s.max_articles
                         THEN "done" ELSE "pages"]

\* Lines 312-355: the revision is cleaned and accepted, its record is written
\* to the output and, while the sample is not full, to the sample; the loop
\* over the revisions is left.
AcceptRevision(s, cleaned) ==
    LET rec  == Record(s, cleaned)
        more == s.sample_count < s.sample_size
        t == [s EXCEPT !.out = Append(s.out, rec),
                       !.valid_articles = s.valid_articles + 1,
                       !.sample = IF more THEN Append(s.sample, rec) ELSE s.sample,
                       !.sample_count = IF more THEN s.sample_count + 1
                                        ELSE s.sample_count,
                       !.cleaned = s.cleaned + 1,
                       !.revs = Tail(s.revs)]
    IN  [t EXCEPT !.pc = AfterPage(t)]

\* Line 316
Rejected(cleaned) == cleaned = <<>> \/ Len(cleaned) < MinDocLen

DumpInit ==
    /\ \E n \in 0..MaxSample, m \in 0..MaxArticles : pd = DumpCall(n, m)
    /\ dn = Idle /\ ue = Idle /\ ct = Idle

DumpSkipPage ==
    /\ pd.pc = "pages" /\ pd.processed_pages < MaxPages
    /\ \E page \in Pages :
          /\ page.namespace # 0 \/ page.redirect
          /\ pd' = SkipPage(pd, page)
    /\ UNCHANGED <<dn, ue, ct>>

DumpOpenPage ==
    /\ pd.pc = "pages" /\ pd.processed_pages < MaxPages
    /\ \E page \in Pages :
          /\ ~(page.namespace # 0 \/ page.redirect)
          /\ pd' = OpenPage(pd, page)
    /\ UNCHANGED <<dn, ue, ct>>

DumpRejectRevision ==
    /\ pd.pc = "revs" /\ pd.revs # <<>>
    /\ Rejected(clean_text(Head(pd.revs)))
    /\ pd' = RejectRevision(pd)
    /\ UNCHANGED <<dn, ue, ct>>

DumpAcceptRevision ==
    /\ pd.pc = "revs" /\ pd.revs # <<>>
    /\ ~Rejected(clean_text(Head(pd.revs)))
    /\ pd' = AcceptRevision(pd, clean_text(Head(pd.revs)))
    /\ UNCHANGED <<dn, ue, ct>>

\* Line 311: the page has no further revision.
DumpRevisionsEnd ==
    /\ pd.pc = "revs" /\ pd.revs = <<>>
    /\ pd' = [pd EXCEPT !.pc = AfterPage(pd)]
    /\ UNCHANGED <<dn, ue, ct>>

\* Line 303: the dump has no further page.
DumpEnd ==
    /\ pd.pc = "pages"
    /\ pd' = [pd EXCEPT !.pc = "done"]
    /\ UNCHANGED <<dn, ue, ct>>

DumpNext ==
    \/ DumpSkipPage
    \/ DumpOpenPage
    \/ DumpRejectRevision
    \/ DumpAcceptRevision
    \/ DumpRevisionsEnd
    \/ DumpEnd

SpecDump == DumpInit /\ [][DumpNext]_vars

----------------------------------------------------------------------------
(* Properties of process_dump                                              *)

C10_OnlyLatestRevision == pd.pc # "idle" => pd.cleaned <= 1

====
